---- MODULE Spec2Model ----
(***************************************************************************)
(* Model of the Kubernetes test-version updater:                           *)
(*   tools/k8s_versions/update_k8s_versions.go  (workflow-file updater)    *)
(*   the test-matrix updater (getSupportedKubernetesVersions,              *)
(*   getLatestSupportedKindImages, ...)                                    *)
(* Strings are sequences of one-character strings, so that trimming,       *)
(* prefix tests, splitting and the version regular expression are computed *)
(* as the Go code computes them.  A file is the sequence of its lines.     *)
(***************************************************************************)
EXTENDS Integers, Sequences, FiniteSets, TLC

\* Largest patch number carried by a feed entry or published in the registry.
MaxPatch == 1

(***************************************************************************)
(* Go string primitives                                                    *)
(***************************************************************************)
Digits == <<"0", "1", "2", "3", "4", "5", "6", "7", "8", "9">>

IsDigit(c) == c \in {"0", "1", "2", "3", "4", "5", "6", "7", "8", "9"}

DigitVal(c) == (CHOOSE i \in 1..10 : Digits[i] = c) - 1

IsSpace(c) == c \in {" ", "\t", "\r", "\n"}

SetMin(S) == CHOOSE x \in S : \A y \in S : x <= y

SetMax(S) == CHOOSE x \in S : \A y \in S : x >= y

\* index of the first non-space character at or after i (Len(s) + 1 if none)
RECURSIVE FirstNonSpace(_, _)
FirstNonSpace(s, i) ==
  IF i > Len(s) THEN i
  ELSE IF IsSpace(s[i]) THEN FirstNonSpace(s, i + 1)
  ELSE i

\* index of the last non-space character at or before i (0 if none)
RECURSIVE LastNonSpace(_, _)
LastNonSpace(s, i) ==
  IF i < 1 THEN 0
  ELSE IF IsSpace(s[i]) THEN LastNonSpace(s, i - 1)
  ELSE i

\* strings.TrimSpace
TrimSpace(s) ==
  LET a == FirstNonSpace(s, 1)
      b == LastNonSpace(s, Len(s))
  IN  IF a > b THEN <<>> ELSE SubSeq(s, a, b)

\* strings.HasPrefix
HasPrefix(s, prefix) ==
  /\ Len(s) >= Len(prefix)
  /\ SubSeq(s, 1, Len(prefix)) = prefix

\* strings.Repeat(" ", n)
Repeat(n) == [i \in 1..n |-> " "]

\* strings.Split(s, "."): the pieces between the dots, at least one piece
RECURSIVE Split(_)
Split(s) ==
  LET dots == {i \in 1..Len(s) : s[i] = "."}
  IN  IF dots = {} THEN <<s>>
      ELSE LET d == SetMin(dots)
           IN  <<SubSeq(s, 1, d - 1)>> \o Split(SubSeq(s, d + 1, Len(s)))

\* strings.Join(parts, ".")
RECURSIVE Join(_)
Join(parts) ==
  IF Len(parts) = 0 THEN <<>>
  ELSE IF Len(parts) = 1 THEN parts[1]
  ELSE parts[1] \o <<".">> \o Join(Tail(parts))

\* value of a non-empty run of decimal digits
RECURSIVE DigitsVal(_)
DigitsVal(s) ==
  IF Len(s) = 0 THEN 0
  ELSE 10 * DigitsVal(SubSeq(s, 1, Len(s) - 1)) + DigitVal(s[Len(s)])

\* strconv.Atoi: optional sign, then one or more decimal digits
Atoi(s) ==
  LET signed == Len(s) > 0 /\ s[1] \in {"+", "-"}
      body   == IF signed THEN Tail(s) ELSE s
  IN  IF Len(body) = 0 \/ \E i \in 1..Len(body) : ~IsDigit(body[i])
      THEN [ok |-> FALSE, val |-> 0]
      ELSE [ok |-> TRUE,
            val |-> IF signed /\ s[1] = "-" THEN 0 - DigitsVal(body)
                    ELSE DigitsVal(body)]

\* strconv.Itoa
RECURSIVE Itoa(_)
Itoa(n) ==
  IF n < 0 THEN <<"-">> \o Itoa(0 - n)
  ELSE IF n < 10 THEN <<Digits[n + 1]>>
  ELSE Itoa(n \div 10) \o <<Digits[(n % 10) + 1]>>

(***************************************************************************)
(* versionRE = regexp.MustCompile("\\d+.\\d+.\\d+"): the dots are          *)
(* unescaped, so each matches any character.  matchDn(s, i) is the         *)
(* position just after the preferred (leftmost-first, greedy) match of the *)
(* last n components starting at i, or 0 when there is none.               *)
(***************************************************************************)
RECURSIVE DigitRun(_, _)
DigitRun(s, i) ==
  IF i > Len(s) THEN 0
  ELSE IF IsDigit(s[i]) THEN 1 + DigitRun(s, i + 1)
  ELSE 0

matchD1(s, i) ==
  IF DigitRun(s, i) >= 1 THEN i + DigitRun(s, i) ELSE 0

matchD2(s, i) ==
  LET K == {k \in 1..DigitRun(s, i) :
              i + k <= Len(s) /\ matchD1(s, i + k + 1) # 0}
  IN  IF K = {} THEN 0 ELSE matchD1(s, i + SetMax(K) + 1)

versionRE(s, i) ==
  LET K == {k \in 1..DigitRun(s, i) :
              i + k <= Len(s) /\ matchD2(s, i + k + 1) # 0}
  IN  IF K = {} THEN 0 ELSE matchD2(s, i + SetMax(K) + 1)

\* versionRE.ReplaceAllString(s, repl), scanning from position i
RECURSIVE ReplaceFrom(_, _, _)
ReplaceFrom(s, i, repl) ==
  IF i > Len(s) THEN <<>>
  ELSE LET e == versionRE(s, i)
       IN  IF e # 0 THEN repl \o ReplaceFrom(s, e, repl)
           ELSE <<s[i]>> \o ReplaceFrom(s, i + 1, repl)

ReplaceAllString(s, repl) == ReplaceFrom(s, 1, repl)

(***************************************************************************)
(* time.Parse("2006-01-02", s) and Time.After                              *)
(* An instant is <<yyyymmdd, time of day>>; a parsed date is midnight.     *)
(***************************************************************************)
DaysIn(y, m) ==
  IF m \in {4, 6, 9, 11} THEN 30
  ELSE IF m = 2
       THEN (IF (y % 4 = 0 /\ y % 100 # 0) \/ y % 400 = 0 THEN 29 ELSE 28)
  ELSE 31

\* the layout matched without range checks on month and day
ParseDateUnchecked(s) ==
  IF /\ Len(s) = 10
     /\ \A i \in {1, 2, 3, 4, 6, 7, 9, 10} : IsDigit(s[i])
     /\ s[5] = "-"
     /\ s[8] = "-"
  THEN [ok |-> TRUE,
        t  |-> <<DigitsVal(SubSeq(s, 1, 4)) * 10000
                   + DigitsVal(SubSeq(s, 6, 7)) * 100
                   + DigitsVal(SubSeq(s, 9, 10)), 0>>]
  ELSE [ok |-> FALSE, t |-> <<0, 0>>]

ParseDate(s) ==
  IF /\ Len(s) = 10
     /\ \A i \in {1, 2, 3, 4, 6, 7, 9, 10} : IsDigit(s[i])
     /\ s[5] = "-"
     /\ s[8] = "-"
  THEN LET y == DigitsVal(SubSeq(s, 1, 4))
           m == DigitsVal(SubSeq(s, 6, 7))
           d == DigitsVal(SubSeq(s, 9, 10))
       IN  IF m \in 1..12 /\ d >= 1 /\ d <= DaysIn(y, m)
           THEN [ok |-> TRUE, t |-> <<y * 10000 + m * 100 + d, 0>>]
           ELSE [ok |-> FALSE, t |-> <<0, 0>>]
  ELSE [ok |-> FALSE, t |-> <<0, 0>>]

\* the days compared in place of the instants: today counts as after now
AfterOrSameDay(t, u) == t[1] >= u[1]

\* "not before" in place of "after": an instant counts as after itself
NotBefore(t, u) == t[1] > u[1] \/ (t[1] = u[1] /\ t[2] >= u[2])

After(t, u) == t[1] > u[1] \/ (t[1] = u[1] /\ t[2] > u[2])

(***************************************************************************)
(* ImageResolver: registry probe and backward search                       *)
(* A registry is [exists |-> set of published tags, down |-> the tag whose *)
(* probe fails in transport, or NoTag].                                    *)
(***************************************************************************)
NoTag == <<>>

\* imageTagExists: (exists, err)
imageTagExists(tag, reg) ==
  IF tag = reg.down /\ reg.down # NoTag
  THEN [exists |-> FALSE, err |-> TRUE]
  ELSE [exists |-> tag \in reg.exists, err |-> FALSE]

\* decrementMinorMinorVersion with the floor one patch too high: patch 1 is
\* not decremented to patch 0
decrementFloorAtOne(version) ==
  LET parts == Split(version)
  IN  IF Len(parts) < 3 THEN [version |-> <<>>, err |-> "no minor version"]
      ELSE LET minor == Atoi(parts[3])
           IN  IF ~minor.ok THEN [version |-> <<>>, err |-> "invalid minor version"]
               ELSE IF minor.val <= 1
                    THEN [version |-> <<>>, err |-> "below 0"]
               ELSE [version |-> Join([parts EXCEPT ![3] = Itoa(minor.val - 1)]),
                     err |-> ""]

\* decrementMinorMinorVersion: (version, err); err is "" on success
decrementMinorMinorVersion(version) ==
  LET parts == Split(version)
  IN  IF Len(parts) < 3 THEN [version |-> <<>>, err |-> "no minor version"]
      ELSE LET minor == Atoi(parts[3])
           IN  IF ~minor.ok THEN [version |-> <<>>, err |-> "invalid minor version"]
               ELSE IF minor.val = 0
                    THEN [version |-> <<>>, err |-> "below 0"]
               ELSE [version |-> Join([parts EXCEPT ![3] = Itoa(minor.val - 1)]),
                     err |-> ""]

\* getAvailableKindImage: (tag, err); err is "" on success, "probe" when
\* imageTagExists failed, "decrement" when the version could not be decremented
RECURSIVE getAvailableKindImage(_, _)
getAvailableKindImage(tag, reg) ==
  LET p == imageTagExists(tag, reg)
  IN  IF p.err THEN [tag |-> <<>>, err |-> "probe"]
      ELSE IF p.exists THEN [tag |-> tag, err |-> ""]
      ELSE LET d == decrementMinorMinorVersion(tag)
           IN  IF d.err # "" THEN [tag |-> <<>>, err |-> "decrement"]
               ELSE getAvailableKindImage(d.version, reg)

(***************************************************************************)
(* BlockPatcher merge step: updateVersionsBlock                            *)
(***************************************************************************)
DashV == <<"-", " ", "v">>

EOLMark == <<" ", "#", " ", "E", "O", "L", " ">>

\* the new entry without its indentation
NewEntryNoIndent(n, tag, eol) == DashV \o tag \o EOLMark \o eol

\* fmt.Sprintf("%s- v%s # EOL %s", strings.Repeat(" ", n), tag, eol)
NewEntry(n, tag, eol) == Repeat(n) \o DashV \o tag \o EOLMark \o eol

\* the inner loop "for i, line := range versionBlock" from index i on:
\* (lines appended to output, err)
RECURSIVE scanBlock(_, _, _, _, _)
scanBlock(version, supported, versionBlock, i, reg) ==
  IF i > Len(versionBlock) THEN [lines |-> <<>>, err |-> ""]
  ELSE
    LET line    == versionBlock[i]
        trimmed == TrimSpace(line)
        r       == getAvailableKindImage(version.Latest, reg)
    IN  IF HasPrefix(trimmed, DashV \o version.Cycle)
        THEN IF supported
             THEN IF r.err # "" THEN [lines |-> <<>>, err |-> r.err]
                  ELSE [lines |-> <<ReplaceAllString(line, r.tag)>>, err |-> ""]
             ELSE [lines |-> <<>>, err |-> ""]
        ELSE IF i = Len(versionBlock) /\ supported
        THEN IF r.err # "" THEN [lines |-> <<>>, err |-> r.err]
             ELSE [lines |-> <<NewEntry(Len(line) - Len(trimmed), r.tag,
                                        version.EOLDate)>>,
                   err |-> ""]
        ELSE scanBlock(version, supported, versionBlock, i + 1, reg)

\* the outer loop "for _, version := range versions" from index k on, with
\* the output built so far: (output, err); output is nil on error
RECURSIVE mergeFrom(_, _, _, _, _, _)
mergeFrom(versions, versionBlock, nowT, reg, k, output) ==
  IF k > Len(versions) THEN [output |-> output, err |-> ""]
  ELSE
    LET version == versions[k]
        eolDate == ParseDate(version.EOLDate)
        inner   == scanBlock(version, After(eolDate.t, nowT), versionBlock, 1, reg)
    IN  IF ~eolDate.ok THEN [output |-> <<>>, err |-> "date"]
        ELSE IF inner.err # "" THEN [output |-> <<>>, err |-> inner.err]
        ELSE mergeFrom(versions, versionBlock, nowT, reg, k + 1,
                       output \o inner.lines)

\* the "#" lines of the existing block kept in front of the merged lines
updateVersionsBlockKeepingComments(versions, versionBlock, nowT, reg) ==
  LET r == mergeFrom(versions, versionBlock, nowT, reg, 1, <<>>)
      comments ==
        SelectSeq(versionBlock,
                  LAMBDA line : HasPrefix(TrimSpace(line), <<"#">>))
  IN  IF r.err # "" THEN r ELSE [r EXCEPT !.output = comments \o r.output]

updateVersionsBlock(versions, versionBlock, nowT, reg) ==
  mergeFrom(versions, versionBlock, nowT, reg, 1, <<>>)

(***************************************************************************)
(* Inputs: feeds, registries and workflow files                            *)
(***************************************************************************)
Cycle30 == <<"1", ".", "3", "0">>

Cycle31 == <<"1", ".", "3", "1">>

Cycle29 == <<"1", ".", "2", "9">>

Cycles == {Cycle30, Cycle31}

\* the full version <cycle>.<patch>
Tag(cycle, patch) == cycle \o <<".">> \o Itoa(patch)

AllTags == {Tag(c, p) : c \in Cycles, p \in 0..MaxPatch}

DatePast == <<"2", "0", "2", "0", "-", "0", "1", "-", "0", "1">>

DateToday == <<"2", "0", "2", "5", "-", "0", "6", "-", "1", "5">>

DateFuture == <<"2", "0", "9", "9", "-", "0", "1", "-", "0", "1">>

DateBad == <<"2", "0", "9", "9", "-", "1", "3", "-", "0", "1">>

EOLDates == {DateToday, DateFuture, DateBad}

\* time.Now(): midnight of DateToday, or later that day
NowSet == {<<20250615, 0>>, <<20250615, 1>>}

\* KubernetesVersion records of one cycle (ReleaseDate is never read)
FeedEntries(cycle, patches) ==
  {[Cycle |-> cycle, EOLDate |-> d, Latest |-> Tag(cycle, p)] :
     d \in EOLDates, p \in patches}

\* the decoded feed: at most one entry per cycle, in either order, each
\* advertising one of the given patches as its latest
Feeds(patches) ==
  {<<>>}
  \cup {<<a>> : a \in FeedEntries(Cycle30, patches) \cup FeedEntries(Cycle31, patches)}
  \cup {<<a, b>> : a \in FeedEntries(Cycle30, patches),
                   b \in FeedEntries(Cycle31, patches)}
  \cup {<<b, a>> : a \in FeedEntries(Cycle30, patches),
                   b \in FeedEntries(Cycle31, patches)}

\* registries in which the patches of a cycle were published in order
PublishedUpTo(h30, h31) ==
  {Tag(Cycle30, p) : p \in 0..h30} \cup {Tag(Cycle31, p) : p \in 0..h31}

OrderedRegistries ==
  {PublishedUpTo(h30, h31) : h30 \in (0 - 1)..MaxPatch, h31 \in (0 - 1)..MaxPatch}

Registries == SUBSET AllTags

\* two cycles whose minor components differ in their number of digits
Cycle9 == <<"1", ".", "9">>

Cycle10 == <<"1", ".", "1", "0">>

\* the feeds listing both of them as supported, in either order
DigitCountFeeds ==
  LET e9  == [Cycle |-> Cycle9, EOLDate |-> DateFuture, Latest |-> Tag(Cycle9, 0)]
      e10 == [Cycle |-> Cycle10, EOLDate |-> DateFuture, Latest |-> Tag(Cycle10, 0)]
  IN  {<<e9, e10>>, <<e10, e9>>}

\* the registry publishing the advertised patch of both
DigitCountRegistry == {Tag(Cycle9, 0), Tag(Cycle10, 0)}

K8sVersionHeader ==
  <<"k", "8", "s", "-", "v", "e", "r", "s", "i", "o", "n", ":">>

KubernetesVersionHeader ==
  <<"k", "u", "b", "e", "r", "n", "e", "t", "e", "s", "_",
    "v", "e", "r", "s", "i", "o", "n", ":">>

\* an entry line as the workflow files carry it
EntryLine(indent, tag, eol) ==
  Repeat(indent) \o DashV \o tag \o EOLMark \o eol

CommentLine == Repeat(4) \o <<"#", " ", "k", "i", "n", "d">>

OtherLine == <<"o", "s", ":">>

StepsLine == Repeat(2) \o <<"s", "t", "e", "p", "s", ":">>

BlankLine == <<>>

\* one block listing both cycles, closed by a blank line
FileBoth ==
  <<OtherLine,
    Repeat(2) \o K8sVersionHeader,
    EntryLine(4, Tag(Cycle30, 0), DateFuture),
    EntryLine(4, Tag(Cycle31, 1), DateFuture),
    BlankLine,
    StepsLine>>

\* two blocks, one per header spelling
FileTwoBlocks ==
  <<Repeat(2) \o K8sVersionHeader,
    EntryLine(4, Tag(Cycle30, 0), DateFuture),
    BlankLine,
    KubernetesVersionHeader,
    EntryLine(2, Tag(Cycle31, 0), DateFuture),
    StepsLine>>

\* the input ends inside the block
FileOpenBlock ==
  <<OtherLine,
    Repeat(2) \o K8sVersionHeader,
    EntryLine(4, Tag(Cycle30, 1), DateFuture)>>

\* a header with no entries under it
FileEmptyBlock ==
  <<Repeat(2) \o K8sVersionHeader,
    StepsLine>>

\* a block with a comment line, a stale cycle and one current cycle,
\* whose line is indented deeper and ends in a space
FileStale ==
  <<Repeat(2) \o K8sVersionHeader,
    CommentLine,
    EntryLine(4, Tag(Cycle29, 3), DatePast),
    EntryLine(6, Tag(Cycle31, 0), DateFuture) \o <<" ">>,
    StepsLine>>

\* no versions block at all
FilePlain == <<OtherLine, BlankLine, StepsLine>>

Files ==
  {FileBoth, FileTwoBlocks, FileOpenBlock, FileEmptyBlock, FileStale, FilePlain}

\* the contents of the two files of filesToUpdate, in list order
FilePairs ==
  {<<FileBoth, FileEmptyBlock>>, <<FileTwoBlocks, FilePlain>>,
   <<FileOpenBlock, FileEmptyBlock>>, <<FileEmptyBlock, FileOpenBlock>>,
   <<FileStale, FilePlain>>, <<FilePlain, FileStale>>}

\* the value of testMatrix before test-matrix.json is decoded
EmptyMatrix == [e \in {} |-> <<>>]

(***************************************************************************)
(* State                                                                   *)
(***************************************************************************)
VARIABLES
  prog,                 \* which entry point runs: "workflow" or "matrix"
  pc,                   \* position of main
  kubernetesVersions,   \* the decoded feed
  now,                  \* time.Now()
  registry,             \* tags published in the image registry
  lines,                \* the lines the scanner reads from the target file
  fs,                   \* the lines on disk of each file of filesToUpdate
  fileIdx,              \* workflow main: index of filePath in filesToUpdate
  partialFailure,       \* workflow main: partialFailure
  attempted,            \* per file updateK8sVersion returned for: the outcome
  pos,                  \* number of lines scanned so far
  output,               \* updateK8sVersion: output
  k8sVersionBlock,      \* updateK8sVersion: k8sVersionBlock
  inK8sVersionBlock,    \* updateK8sVersion: inK8sVersionBlock
  calls,                \* the calls of updateVersionsBlock for this file
  k8sVersions,          \* matrix main: the supported versions
  kindIdx,              \* getLatestSupportedKindImages: index of k8sVersion
  tag,                  \* getLatestSupportedKindImages: tag
  supportedKindVersions,\* getLatestSupportedKindImages: result so far
  probes,               \* the tags probed for the current k8sVersion
  resolved,             \* per finished k8sVersion: start, probes and outcome
  kindVersions,         \* matrix main: kindVersions
  minikubeList,         \* getLatestSupportedMinikubeVersions: versions
  minikubeVersions,     \* matrix main: minikubeVersions
  errs,                 \* matrix main: errs, the errors joined so far
  testMatrix,           \* updateMatrixFile: testMatrix as decoded
  matrixWrites,         \* the contents written to test-matrix.json
  err                   \* error returned by the running function, "" if none

vars ==
  <<prog, pc, kubernetesVersions, now, registry, lines, fs, fileIdx,
    partialFailure, attempted, pos, output,
    k8sVersionBlock, inK8sVersionBlock, calls, k8sVersions, kindIdx, tag,
    supportedKindVersions, probes, resolved, kindVersions, minikubeList,
    minikubeVersions, errs, testMatrix, matrixWrites, err>>

fileVars == <<fs, fileIdx, partialFailure, attempted>>

workflowVars ==
  <<lines, fileVars, pos, output, k8sVersionBlock, inK8sVersionBlock, calls>>

\* the lines on disk of the file updateK8sVersion is working on
disk == fs[fileIdx]

kindVars ==
  <<k8sVersions, kindIdx, tag, supportedKindVersions, probes, resolved>>

mainVars ==
  <<kindVersions, minikubeList, minikubeVersions, errs, testMatrix,
    matrixWrites>>

matrixVars == <<kindVars, mainVars>>

inputVars == <<prog, kubernetesVersions, now, registry>>

Init ==
  /\ prog \in {"workflow", "matrix"}
  /\ now \in NowSet
  /\ IF prog = "workflow"
     THEN /\ kubernetesVersions \in Feeds({MaxPatch})
          /\ registry \in OrderedRegistries
          /\ fs \in FilePairs
          /\ fileIdx = 1
          /\ pc = "scan"
     ELSE /\ \/ /\ kubernetesVersions \in Feeds(0..MaxPatch)
                /\ registry \in Registries
             \/ /\ kubernetesVersions \in DigitCountFeeds
                /\ registry = DigitCountRegistry
          /\ fs = <<>>
          /\ fileIdx = 0
          /\ pc = "start"
  /\ lines = IF prog = "workflow" THEN fs[1] ELSE <<>>
  /\ partialFailure = FALSE
  /\ attempted = <<>>
  /\ pos = 0
  /\ output = <<>>
  /\ k8sVersionBlock = <<>>
  /\ inK8sVersionBlock = FALSE
  /\ calls = <<>>
  /\ k8sVersions = <<>>
  /\ kindIdx = 0
  /\ tag = NoTag
  /\ supportedKindVersions = <<>>
  /\ probes = <<>>
  /\ resolved = <<>>
  /\ kindVersions = <<>>
  /\ minikubeList = <<>>
  /\ minikubeVersions = <<>>
  /\ errs = <<>>
  /\ testMatrix = EmptyMatrix
  /\ matrixWrites = <<>>
  /\ err = ""

(***************************************************************************)
(* Workflow-file updater: updateK8sVersion, one action per scanned line    *)
(***************************************************************************)
IsHeader(trimmed) ==
  HasPrefix(trimmed, K8sVersionHeader) \/ HasPrefix(trimmed, KubernetesVersionHeader)

IsBlockLine(trimmed) ==
  HasPrefix(trimmed, <<"-">>) \/ HasPrefix(trimmed, <<"#">>)

\* the file content produced by strings.Join(output, "\n") + "\n"
WrittenLines(out) == IF out = <<>> THEN <<BlankLine>> ELSE out

\* the merged block placed after the terminating line instead of before it
EmitBlockAfterLine(out, updatedVerBlock, line) ==
  out \o <<line>> \o updatedVerBlock

\* output = append(output, append(updatedVerBlock, line)...)
EmitBlock(out, updatedVerBlock, line) ==
  out \o updatedVerBlock \o <<line>>

\* a line opening the k8s-version block
ScanHeader ==
  /\ prog = "workflow" /\ pc = "scan" /\ pos < Len(lines)
  /\ LET line == lines[pos + 1] IN
       /\ IsHeader(TrimSpace(line))
       /\ inK8sVersionBlock' = TRUE
       /\ output' = Append(output, line)
  /\ pos' = pos + 1
  /\ UNCHANGED <<inputVars, matrixVars, pc, lines, fileVars, k8sVersionBlock,
                 calls, err>>

\* a "-" or "#" line inside the block
ScanBlockLine ==
  /\ prog = "workflow" /\ pc = "scan" /\ pos < Len(lines)
  /\ LET line == lines[pos + 1] IN
       /\ ~IsHeader(TrimSpace(line))
       /\ inK8sVersionBlock
       /\ IsBlockLine(TrimSpace(line))
       /\ k8sVersionBlock' = Append(k8sVersionBlock, line)
  /\ pos' = pos + 1
  /\ UNCHANGED <<inputVars, matrixVars, pc, lines, fileVars, output,
                 inK8sVersionBlock, calls, err>>

\* the line that ends the block: updateVersionsBlock is called
ScanTerminator ==
  /\ prog = "workflow" /\ pc = "scan" /\ pos < Len(lines)
  /\ LET line == lines[pos + 1] IN
       /\ ~IsHeader(TrimSpace(line))
       /\ inK8sVersionBlock
       /\ ~IsBlockLine(TrimSpace(line))
       /\ TrimSpace(line) = <<>> \/ ~HasPrefix(TrimSpace(line), <<"-">>)
       /\ \E down \in {NoTag} \cup AllTags :
            LET reg == [exists |-> registry, down |-> down]
                r   == updateVersionsBlock(kubernetesVersions, k8sVersionBlock,
                                           now, reg)
            IN  /\ down = NoTag \/ r.err = "probe"
                /\ calls' = Append(calls,
                                   [at |-> pos + 1, block |-> k8sVersionBlock,
                                    down |-> down, out |-> r.output,
                                    err |-> r.err])
                /\ IF r.err # ""
                   THEN /\ err' = r.err
                        /\ pc' = "failed"
                        /\ UNCHANGED <<output, inK8sVersionBlock>>
                   ELSE /\ output' = EmitBlock(output, r.output, line)
                        /\ inK8sVersionBlock' = FALSE
                        /\ UNCHANGED <<err, pc>>
  /\ pos' = pos + 1
  /\ UNCHANGED <<inputVars, matrixVars, lines, fileVars, k8sVersionBlock>>

\* a line outside any block
ScanOther ==
  /\ prog = "workflow" /\ pc = "scan" /\ pos < Len(lines)
  /\ LET line == lines[pos + 1] IN
       /\ ~IsHeader(TrimSpace(line))
       /\ ~inK8sVersionBlock
       /\ output' = Append(output, line)
  /\ pos' = pos + 1
  /\ UNCHANGED <<inputVars, matrixVars, pc, lines, fileVars, k8sVersionBlock,
                 inK8sVersionBlock, calls, err>>

\* the output is written while the scan is still going on
WriteFileEarly ==
  /\ prog = "workflow" /\ pc = "scan" /\ pos <= Len(lines)
  /\ fs' = [fs EXCEPT ![fileIdx] = WrittenLines(output)]
  /\ pc' = IF pos = Len(lines) THEN "written" ELSE "scan"
  /\ UNCHANGED <<inputVars, matrixVars, lines, fileIdx, partialFailure,
                 attempted, pos, output, k8sVersionBlock, inK8sVersionBlock,
                 calls, err>>

\* end of input: the output is written back over the file
WriteFile ==
  /\ prog = "workflow" /\ pc = "scan" /\ pos = Len(lines)
  /\ fs' = [fs EXCEPT ![fileIdx] = WrittenLines(output)]
  /\ pc' = "written"
  /\ UNCHANGED <<inputVars, matrixVars, lines, fileIdx, partialFailure,
                 attempted, pos, output, k8sVersionBlock, inK8sVersionBlock,
                 calls, err>>

\* os.Open fails: nothing is read
OpenFails ==
  /\ prog = "workflow" /\ pc = "scan" /\ pos = 0
  /\ err' = "open"
  /\ pc' = "failed"
  /\ UNCHANGED <<inputVars, matrixVars, workflowVars>>

\* the scanner stops on a read error: scanner.Err() is returned
ScanFails ==
  /\ prog = "workflow" /\ pc = "scan" /\ pos < Len(lines)
  /\ err' = "read"
  /\ pc' = "failed"
  /\ UNCHANGED <<inputVars, matrixVars, workflowVars>>

\* os.WriteFile fails: the file is left as it was, or truncated
WriteFails ==
  /\ prog = "workflow" /\ pc = "scan" /\ pos = Len(lines)
  /\ \E content \in {disk, <<>>} : fs' = [fs EXCEPT ![fileIdx] = content]
  /\ err' = "write"
  /\ pc' = "failed"
  /\ UNCHANGED <<inputVars, matrixVars, lines, fileIdx, partialFailure,
                 attempted, pos, output, k8sVersionBlock, inK8sVersionBlock,
                 calls>>

(***************************************************************************)
(* Workflow-file updater: the loop of main over filesToUpdate              *)
(***************************************************************************)
\* the loop is left at the first file that fails
rangeStopsOnFailure(idx, n, failed) == idx < n /\ ~failed

\* for _, filePath := range filesToUpdate: another file follows file idx
rangeContinues(idx, n, failed) == idx < n

\* updateK8sVersion has returned for filesToUpdate[fileIdx]: main records a
\* failure and goes on with the next file, or exits after the last one
NextFile ==
  /\ prog = "workflow" /\ pc \in {"written", "failed"}
  /\ LET failed == pc = "failed" IN
       /\ partialFailure' = (partialFailure \/ failed)
       /\ attempted' = Append(attempted,
                              [file |-> fileIdx, failed |-> failed,
                               content |-> disk])
       /\ IF rangeContinues(fileIdx, Len(fs), failed)
          THEN /\ fileIdx' = fileIdx + 1
               /\ lines' = fs[fileIdx + 1]
               /\ pc' = "scan"
          ELSE /\ pc' = IF partialFailure \/ failed THEN "exit2" ELSE "exit0"
               /\ UNCHANGED <<fileIdx, lines>>
  /\ pos' = 0
  /\ output' = <<>>
  /\ k8sVersionBlock' = <<>>
  /\ inK8sVersionBlock' = FALSE
  /\ calls' = <<>>
  /\ err' = ""
  /\ UNCHANGED <<inputVars, matrixVars, fs>>

(***************************************************************************)
(* Test-matrix updater: getSupportedKubernetesVersions and                 *)
(* getLatestSupportedKindImages, one action per registry probe             *)
(***************************************************************************)
\* the loop of getSupportedKubernetesVersions from index k on: (versions, err)
RECURSIVE supportedFrom(_, _, _, _)
supportedFrom(versions, nowT, k, acc) ==
  IF k > Len(versions) THEN [versions |-> acc, err |-> ""]
  ELSE LET eolDate == ParseDate(versions[k].EOLDate)
       IN  IF ~eolDate.ok THEN [versions |-> <<>>, err |-> "date"]
           ELSE IF After(eolDate.t, nowT)
                THEN supportedFrom(versions, nowT, k + 1, Append(acc, versions[k]))
           ELSE supportedFrom(versions, nowT, k + 1, acc)

getSupportedKubernetesVersions(versions, nowT) ==
  supportedFrom(versions, nowT, 1, <<>>)

\* main: k8sVersions, err := getSupportedKubernetesVersions()
GetSupported ==
  /\ prog = "matrix" /\ pc = "start"
  /\ LET r == getSupportedKubernetesVersions(kubernetesVersions, now) IN
       IF r.err # "" \/ Len(r.versions) = 0
       THEN /\ pc' = "exit1"
            /\ err' = r.err
            /\ UNCHANGED <<k8sVersions, kindIdx, tag>>
       ELSE /\ pc' = "kind"
            /\ k8sVersions' = r.versions
            /\ kindIdx' = 1
            /\ tag' = r.versions[1].Latest
            /\ UNCHANGED err
  /\ UNCHANGED <<inputVars, workflowVars, mainVars, supportedKindVersions,
                 probes, resolved>>

\* the search for k8sVersions[kindIdx] ended with the given outcome:
\* go on with the next k8sVersion, or return when there is none
NextVersion(outcome) ==
  /\ resolved' = Append(resolved,
                        [start |-> k8sVersions[kindIdx].Latest,
                         probes |-> Append(probes, tag),
                         outcome |-> outcome, tag |-> tag])
  /\ probes' = <<>>
  /\ IF kindIdx < Len(k8sVersions)
     THEN /\ kindIdx' = kindIdx + 1
          /\ tag' = k8sVersions[kindIdx + 1].Latest
          /\ UNCHANGED pc
     ELSE /\ pc' = "kindDone"
          /\ UNCHANGED <<kindIdx, tag>>

\* imageTagExists(tag) reports true
ProbeExists ==
  /\ prog = "matrix" /\ pc = "kind"
  /\ imageTagExists(tag, [exists |-> registry, down |-> NoTag]).exists
  /\ supportedKindVersions' = Append(supportedKindVersions, <<"v">> \o tag)
  /\ NextVersion("found")
  /\ UNCHANGED <<inputVars, workflowVars, mainVars, k8sVersions, err>>

\* imageTagExists(tag) reports false and the same tag is probed again
ProbeDecrementKeepsTag ==
  /\ prog = "matrix" /\ pc = "kind"
  /\ ~imageTagExists(tag, [exists |-> registry, down |-> NoTag]).exists
  /\ decrementMinorMinorVersion(tag).err = ""
  /\ probes' = Append(probes, tag)
  /\ UNCHANGED <<inputVars, workflowVars, mainVars, pc, k8sVersions, kindIdx,
                 tag, supportedKindVersions, resolved, err>>

\* imageTagExists(tag) reports false and the tag can be decremented
ProbeDecrement ==
  /\ prog = "matrix" /\ pc = "kind"
  /\ ~imageTagExists(tag, [exists |-> registry, down |-> NoTag]).exists
  /\ LET d == decrementMinorMinorVersion(tag) IN
       /\ d.err = ""
       /\ tag' = d.version
  /\ probes' = Append(probes, tag)
  /\ UNCHANGED <<inputVars, workflowVars, mainVars, pc, k8sVersions, kindIdx,
                 supportedKindVersions, resolved, err>>

\* imageTagExists(tag) reports false and the tag cannot be decremented
ProbeNoDecrement ==
  /\ prog = "matrix" /\ pc = "kind"
  /\ ~imageTagExists(tag, [exists |-> registry, down |-> NoTag]).exists
  /\ LET d == decrementMinorMinorVersion(tag) IN
       /\ d.err # ""
       /\ IF d.err = "below 0"
          THEN /\ NextVersion("exhausted")
               /\ UNCHANGED err
          ELSE /\ err' = "decrement"
               /\ pc' = "kindDone"
               /\ resolved' = Append(resolved,
                                     [start |-> k8sVersions[kindIdx].Latest,
                                      probes |-> Append(probes, tag),
                                      outcome |-> "error", tag |-> tag])
               /\ UNCHANGED <<kindIdx, tag, probes>>
  /\ UNCHANGED <<inputVars, workflowVars, mainVars, k8sVersions,
                 supportedKindVersions>>

\* imageTagExists(tag) fails (transport or decode failure)
ProbeFails ==
  /\ prog = "matrix" /\ pc = "kind"
  /\ imageTagExists(tag, [exists |-> registry, down |-> tag]).err
  /\ err' = "probe"
  /\ pc' = "kindDone"
  /\ resolved' = Append(resolved,
                        [start |-> k8sVersions[kindIdx].Latest,
                         probes |-> Append(probes, tag),
                         outcome |-> "error", tag |-> tag])
  /\ UNCHANGED <<inputVars, workflowVars, mainVars, k8sVersions, kindIdx,
                 tag, supportedKindVersions, probes>>

(***************************************************************************)
(* Test-matrix updater: sortVersions                                       *)
(***************************************************************************)
\* the characters of a version string in byte order
ByteOrder ==
  <<"-", ".", "0", "1", "2", "3", "4", "5", "6", "7", "8", "9", "v">>

Byte(c) == CHOOSE i \in 1..Len(ByteOrder) : ByteOrder[i] = c

\* Go's a > b on strings: byte-wise, a proper prefix is the smaller one
StrGreater(a, b) ==
  LET diff == {i \in 1..Len(a) : i > Len(b) \/ a[i] # b[i]}
  IN  /\ diff # {}
      /\ LET i == SetMin(diff) IN i > Len(b) \/ Byte(a[i]) > Byte(b[i])

\* the comparison loop of the less function, from component k on
RECURSIVE lessFrom(_, _, _)
lessFrom(vi, vj, k) ==
  IF k > Len(vi) \/ k > Len(vj) THEN Len(vi) > Len(vj)
  ELSE IF vi[k] # vj[k] THEN StrGreater(vi[k], vj[k])
  ELSE lessFrom(vi, vj, k + 1)

\* the less function handed to sort.Slice
less(a, b) == lessFrom(Split(Tail(a)), Split(Tail(b)), 1)

\* sort.Slice on a short slice is an insertion sort: element j sinks while
\* it is less than its left neighbour
RECURSIVE sinkDown(_, _)
sinkDown(s, j) ==
  IF j > 1 /\ less(s[j], s[j - 1])
  THEN sinkDown([s EXCEPT ![j] = s[j - 1], ![j - 1] = s[j]], j - 1)
  ELSE s

RECURSIVE insertionSort(_, _)
insertionSort(s, i) ==
  IF i > Len(s) THEN s ELSE insertionSort(sinkDown(s, i), i + 1)

sortVersions(versions) == insertionSort(versions, 2)

(***************************************************************************)
(* Test-matrix updater: getLatestSupportedMinikubeVersions                 *)
(***************************************************************************)
\* strings.Contains(s, substr)
Contains(s, substr) ==
  \E i \in 1..(Len(s) - Len(substr) + 1) :
    SubSeq(s, i, i + Len(substr) - 1) = substr

\* the inner loop from entry i on: what it appends for one k8sVersion
RECURSIVE minikubeFrom(_, _, _)
minikubeFrom(list, cycle, i) ==
  IF i > Len(list) THEN <<>>
  ELSE IF Contains(list[i], cycle) THEN <<TrimSpace(list[i])>>
  ELSE minikubeFrom(list, cycle, i + 1)

\* the inner loop without its break: every entry of the cycle is appended
everyMinikubeOf(list, cycle) ==
  LET hits == SelectSeq(list, LAMBDA version : Contains(version, cycle))
  IN  [i \in 1..Len(hits) |-> TrimSpace(hits[i])]

\* the inner loop for one k8sVersion
latestMinikubeOf(list, cycle) == minikubeFrom(list, cycle, 1)

\* the outer loop from k8sVersion k on
RECURSIVE latestMinikubeFrom(_, _, _)
latestMinikubeFrom(list, supported, k) ==
  IF k > Len(supported) THEN <<>>
  ELSE latestMinikubeOf(list, supported[k].Cycle)
         \o latestMinikubeFrom(list, supported, k + 1)

\* the loops of getLatestSupportedMinikubeVersions over the parsed slice
getLatestSupportedMinikubeVersions(list, supported) ==
  latestMinikubeFrom(list, supported, 1)

\* an entry of the parsed slice: quotes and newlines removed, the
\* indentation of the source line kept
MinikubeEntry(cycle, patch) == <<"\t", "\t", "v">> \o Tag(cycle, patch)

\* parsed slices of ValidKubernetesVersions: newest first, the last piece
\* is what follows the final comma
MinikubeBoth ==
  <<MinikubeEntry(Cycle31, 1), MinikubeEntry(Cycle31, 0),
    MinikubeEntry(Cycle30, 1), MinikubeEntry(Cycle30, 0), <<"\t">>>>

MinikubeOnly30 ==
  <<MinikubeEntry(Cycle30, 0), MinikubeEntry(Cycle29, 3), <<"\t">>>>

MinikubeNone == <<<<>>>>

MinikubeLists == {MinikubeBoth, MinikubeOnly30, MinikubeNone}

(***************************************************************************)
(* Test-matrix updater: updateMatrixFile                                   *)
(***************************************************************************)
KindField == "k8s-kind-version"

MinikubeField == "k8s-minikube-version"

RuntimeField == "container-runtime"

\* value[field] != nil
HasField(value, field) == field \in DOMAIN value

\* both fields replaced independently of each other
updateEntryBothFields(value, kindV, minikubeV) ==
  [f \in DOMAIN value |->
     IF f = KindField /\ Len(kindV) > 0 THEN kindV
     ELSE IF f = MinikubeField /\ Len(minikubeV) > 0 THEN minikubeV
     ELSE value[f]]

\* the body of the loop over the entries of testMatrix
updateEntry(value, kindV, minikubeV) ==
  IF Len(kindV) > 0 /\ HasField(value, KindField)
  THEN [value EXCEPT ![KindField] = kindV]
  ELSE IF Len(minikubeV) > 0 /\ HasField(value, MinikubeField)
  THEN [value EXCEPT ![MinikubeField] = minikubeV]
  ELSE value

\* testMatrix after the loop of updateMatrixFile
updateMatrix(matrix, kindV, minikubeV) ==
  [e \in DOMAIN matrix |-> updateEntry(matrix[e], kindV, minikubeV)]

OldKind == <<<<"v">> \o Tag(Cycle29, 3)>>

OldMinikube == <<<<"v">> \o Tag(Cycle29, 3), <<"v">> \o Tag(Cycle30, 0)>>

Docker == <<<<"d", "o", "c", "k", "e", "r">>>>

\* the decoded test-matrix.json: entries with one of the fields, both,
\* neither, and a field holding an empty list
MatrixMixed ==
  ("a-kind" :> (KindField :> OldKind @@ RuntimeField :> Docker))
  @@ ("b-minikube" :> (MinikubeField :> OldMinikube @@ RuntimeField :> Docker))
  @@ ("c-both" :> (KindField :> OldKind @@ MinikubeField :> OldMinikube))
  @@ ("d-neither" :> (RuntimeField :> Docker))

MatrixEmptyLists ==
  ("a-kind" :> (KindField :> <<>>))
  @@ ("b-minikube" :> (MinikubeField :> <<>> @@ RuntimeField :> Docker))

Matrices == {MatrixMixed, MatrixEmptyLists}

\* the failures of updateMatrixFile: before the content is decoded (read,
\* unmarshal) and after the loop (marshal, write)
MatrixFailures == {"read", "write"}

\* the two conditions joined by "and": errors alone do not stop the update
NothingToWriteAndErrors(kindV, minikubeV, errors) ==
  (Len(kindV) = 0 /\ Len(minikubeV) = 0) /\ errors # <<>>

\* main: the condition under which nothing is written
NothingToWrite(kindV, minikubeV, errors) ==
  (Len(kindV) = 0 /\ Len(minikubeV) = 0) \/ errors # <<>>

\* main: kindVersions, err := getLatestSupportedKindImages(k8sVersions)
\* has returned: the error is recorded and the versions are sorted
KindReturned ==
  /\ prog = "matrix" /\ pc = "kindDone"
  /\ errs' = IF err # "" THEN Append(errs, "kind") ELSE errs
  /\ kindVersions' = IF Len(supportedKindVersions) > 0
                     THEN sortVersions(supportedKindVersions)
                     ELSE supportedKindVersions
  /\ pc' = "minikube"
  /\ UNCHANGED <<inputVars, workflowVars, kindVars, err, minikubeList,
                 minikubeVersions, testMatrix, matrixWrites>>

\* main: minikubeVersions, err := getLatestSupportedMinikubeVersions(k8sVersions)
GetMinikube ==
  /\ prog = "matrix" /\ pc = "minikube"
  /\ \/ /\ err' = "minikube"
        /\ errs' = Append(errs, "minikube")
        /\ UNCHANGED <<minikubeList, minikubeVersions>>
     \/ \E list \in MinikubeLists :
          /\ minikubeList' = list
          /\ minikubeVersions' =
               getLatestSupportedMinikubeVersions(list, k8sVersions)
          /\ err' = ""
          /\ UNCHANGED errs
  /\ pc' = "decide"
  /\ UNCHANGED <<inputVars, workflowVars, kindVars, kindVersions,
                 testMatrix, matrixWrites>>

\* main: no supported versions found or errors occurred
ExitTwo ==
  /\ prog = "matrix" /\ pc = "decide"
  /\ NothingToWrite(kindVersions, minikubeVersions, errs)
  /\ pc' = "exit2"
  /\ UNCHANGED <<inputVars, workflowVars, kindVars, mainVars, err>>

\* main: updateMatrixFile(path, kindVersions, minikubeVersions)
UpdateMatrixFile ==
  /\ prog = "matrix" /\ pc = "decide"
  /\ ~NothingToWrite(kindVersions, minikubeVersions, errs)
  /\ \E matrix \in Matrices, failure \in {""} \cup MatrixFailures :
       /\ testMatrix' = IF failure = "read" THEN testMatrix ELSE matrix
       /\ matrixWrites' =
            IF failure = ""
            THEN Append(matrixWrites,
                        updateMatrix(matrix, kindVersions, minikubeVersions))
            ELSE matrixWrites
       /\ err' = failure
       /\ pc' = IF failure = "" THEN "exit0" ELSE "exit1"
  /\ UNCHANGED <<inputVars, workflowVars, kindVars, kindVersions,
                 minikubeList, minikubeVersions, errs>>

Next ==
  \/ ScanHeader
  \/ ScanBlockLine
  \/ ScanTerminator
  \/ ScanOther
  \/ WriteFile
  \/ OpenFails
  \/ ScanFails
  \/ WriteFails
  \/ NextFile
  \/ GetSupported
  \/ ProbeExists
  \/ ProbeDecrement
  \/ ProbeNoDecrement
  \/ ProbeFails
  \/ KindReturned
  \/ GetMinikube
  \/ ExitTwo
  \/ UpdateMatrixFile

Spec == Init /\ [][Next]_vars

(***************************************************************************)
(* Properties                                                              *)
(***************************************************************************)
\* main has its inputs and has done nothing yet: the feed, the registry
\* and the time never change afterwards
AtStart == pc \in {"start", "scan"} /\ pos = 0 /\ attempted = <<>>

\* the patches q <= p of a cycle whose tag the registry publishes
Published(cycle, p) == {q \in 0..p : Tag(cycle, q) \in registry}

\* the candidates of a search started on <cycle>.<p>
Candidates(cycle, p) == {Tag(cycle, q) : q \in 0..p}

\* a finished search of getLatestSupportedKindImages agrees with the registry
SearchAgrees(r, cycle, p) ==
  /\ (r.outcome = "exhausted") <=> (Published(cycle, p) = {})
  /\ r.outcome = "found" =>
       /\ Published(cycle, p) # {}
       /\ r.tag = Tag(cycle, SetMax(Published(cycle, p)))
  /\ \A i \in 1..Len(r.probes) : r.probes[i] \in Candidates(cycle, p)

\* getAvailableKindImage agrees with the registry
ResolverAgrees(start, cycle, p) ==
  LET r == getAvailableKindImage(start, [exists |-> registry, down |-> NoTag])
  IN  /\ (r.err = "decrement") <=> (Published(cycle, p) = {})
      /\ (r.err = "") <=> (Published(cycle, p) # {})
      /\ r.err = "" => r.tag = Tag(cycle, SetMax(Published(cycle, p)))

\* C1: without probe transport errors, a search started on M.m.p returns
\* M.m.q for the largest q in 0..p whose tag the registry reports as
\* existing, reports exhaustion exactly when no such q exists, and probes
\* only tags M.m.q with 0 <= q <= p (never a negative patch); this holds for
\* the loop of getLatestSupportedKindImages and for getAvailableKindImage.
C1_ResolverReturnsLargestPublished ==
  \A cycle \in Cycles, p \in 0..MaxPatch :
    /\ \A k \in 1..Len(resolved) :
         (resolved[k].start = Tag(cycle, p) /\ resolved[k].outcome # "error")
           => SearchAgrees(resolved[k], cycle, p)
    /\ (pc = "kind" /\ k8sVersions[kindIdx].Latest = Tag(cycle, p))
         => /\ tag \in Candidates(cycle, p)
            /\ \A i \in 1..Len(probes) : probes[i] \in Candidates(cycle, p)
    /\ \A k \in 1..Len(kubernetesVersions) :
         (AtStart /\ kubernetesVersions[k].Latest = Tag(cycle, p))
           => ResolverAgrees(kubernetesVersions[k].Latest, cycle, p)

\* C1 witness: a search backed off from the advertised patch and found an
\* older one, and another search of the same run was exhausted
C1_Witness ==
  /\ \E k \in 1..Len(resolved) :
       resolved[k].outcome = "found" /\ resolved[k].tag # resolved[k].start
  /\ \E k \in 1..Len(resolved) :
       resolved[k].outcome = "exhausted" /\ Len(resolved[k].probes) > 1

\* C2: when the input ends inside a versions block, end-of-input acts as a
\* terminator: the buffered block is passed to updateVersionsBlock and the
\* result is part of the written file.
C2_EndOfInputFlushesBlock ==
  (pc = "written" /\ inK8sVersionBlock) =>
    LET r == updateVersionsBlock(kubernetesVersions, k8sVersionBlock, now,
                                 [exists |-> registry, down |-> NoTag])
    IN  r.err = "" => disk = WrittenLines(output \o r.output)

(***************************************************************************)
(* Vocabulary for the calls of updateVersionsBlock                         *)
(***************************************************************************)
\* the end-of-life date of v parses and lies after now: a parsed date is a
\* midnight, so it is after now exactly when its day is a later day
EolAfterNow(v) ==
  LET d == ParseDate(v.EOLDate)
  IN  d.ok /\ d.t[1] > now[1]

\* line is an entry of the cycle of v: "- v<cycle>" after the indentation
Matches(line, v) == HasPrefix(TrimSpace(line), DashV \o v.Cycle)

\* index of the first line of block that is an entry of v's cycle, or 0
FirstMatch(block, v) ==
  LET M == {i \in 1..Len(block) : Matches(block[i], v)}
  IN  IF M = {} THEN 0 ELSE SetMin(M)

\* positions of the entries of v's cycle in a block
LinesOf(block, v) == {i \in 1..Len(block) : Matches(block[i], v)}

\* the resolution of v's image tag by the registry as call c saw it
Resolution(c, v) ==
  getAvailableKindImage(v.Latest, [exists |-> registry, down |-> c.down])

\* the calls of updateVersionsBlock that returned a block
Returned == {k \in 1..Len(calls) : calls[k].err = ""}

FeedIdx == 1..Len(kubernetesVersions)

\* C3: in the output of updateVersionsBlock the rewritten existing entries
\* keep the relative order they had in the existing block, every new entry
\* comes after all rewritten entries, and new entries are in feed order.
C3_ExistingOrderKeptNewAppended ==
  \A k \in Returned : \A a, b \in FeedIdx :
    LET c  == calls[k]
        va == kubernetesVersions[a]
        vb == kubernetesVersions[b]
        ma == FirstMatch(c.block, va)
        mb == FirstMatch(c.block, vb)
    IN  \A pa \in LinesOf(c.out, va), pb \in LinesOf(c.out, vb) :
          /\ (ma # 0 /\ mb # 0 /\ ma < mb) => pa < pb
          /\ (ma # 0 /\ mb = 0) => pa < pb
          /\ (ma = 0 /\ mb = 0 /\ a < b) => pa < pb

\* index of the last character of the run of digits and dots starting at i
RECURSIVE VersionEnd(_, _)
VersionEnd(line, i) ==
  IF i <= Len(line) /\ (IsDigit(line[i]) \/ line[i] = ".")
  THEN VersionEnd(line, i + 1)
  ELSE i - 1

\* line with the version that follows "- v" replaced by newTag and nothing
\* else changed
WithVersion(line, newTag) ==
  LET first == FirstNonSpace(line, 1) + Len(DashV)
  IN  SubSeq(line, 1, first - 1) \o newTag
        \o SubSeq(line, VersionEnd(line, first) + 1, Len(line))

\* C4: a rewritten entry line differs from the existing line only in the
\* version that follows "- v", which becomes the resolved tag; indentation
\* and the trailing comment with its "# EOL YYYY-MM-DD" date are unchanged.
C4_RewriteChangesOnlyTheVersion ==
  \A k \in Returned : \A a \in FeedIdx :
    LET c == calls[k]
        v == kubernetesVersions[a]
        m == FirstMatch(c.block, v)
    IN  (EolAfterNow(v) /\ m # 0) =>
          \E i \in 1..Len(c.out) :
            c.out[i] = WithVersion(c.block[m], Resolution(c, v).tag)

\* C5: resolution exhaustion of one cycle is no error of the run: neither
\* updateVersionsBlock nor getLatestSupportedKindImages returns an error
\* because of it, and the other cycles are still resolved and emitted.
C5_ExhaustionIsNoError ==
  /\ \A k \in 1..Len(calls) : calls[k].err # "decrement"
  /\ (pc = "kindDone" /\ \A k \in 1..Len(resolved) : resolved[k].outcome # "error")
       => /\ err = ""
          /\ Len(resolved) = Len(k8sVersions)
          /\ Len(supportedKindVersions)
               = Cardinality({k \in 1..Len(resolved) : resolved[k].outcome = "found"})

\* the block lines read since the header that opened the block ended at
\* line number at
OwnBlock(at) ==
  LET H == {i \in 1..(at - 1) : IsHeader(TrimSpace(lines[i]))}
  IN  SubSeq(lines, SetMax(H) + 1, at - 1)

\* C6: the block passed to updateVersionsBlock holds exactly the "-"/"#"
\* lines read since that block's own header, and no line of an earlier block.
C6_BlockBufferHoldsOwnLinesOnly ==
  \A k \in 1..Len(calls) : calls[k].block = OwnBlock(calls[k].at)

\* the text of the new entry of v with the given tag, without indentation
NewEntryText(v, newTag) == DashV \o newTag \o EOLMark \o v.EOLDate

\* C7: for every supported cycle whose tag resolves and that no existing
\* line matches, the output holds exactly one new entry
\* "- v<resolvedTag> # EOL <eolDate>", whatever the existing block is, a
\* block with no lines included.
C7_UnmatchedCycleGetsOneNewEntry ==
  \A k \in Returned : \A a \in FeedIdx :
    LET c == calls[k]
        v == kubernetesVersions[a]
        r == Resolution(c, v)
    IN  (EolAfterNow(v) /\ r.err = "" /\ FirstMatch(c.block, v) = 0) =>
          Cardinality({i \in 1..Len(c.out) :
                         TrimSpace(c.out[i]) = NewEntryText(v, r.tag)}) = 1

\* line is an entry of the cycle of v, the cycle followed by the patch
IsLineOfCycle(line, v) ==
  HasPrefix(TrimSpace(line), DashV \o v.Cycle \o <<".">>)

\* C8: every line of the output of updateVersionsBlock is an entry of a
\* cycle that the feed lists with an end-of-life date after now: entries of
\* cycles absent from the feed or expired are not re-emitted, and no entry
\* is created for an expired cycle.
C8_OutputHoldsSupportedCyclesOnly ==
  \A k \in Returned : \A i \in 1..Len(calls[k].out) :
    \E a \in FeedIdx :
      /\ EolAfterNow(kubernetesVersions[a])
      /\ IsLineOfCycle(calls[k].out[i], kubernetesVersions[a])

\* C8 witness: a returned block with lines, computed from an existing block
\* that held an entry of a cycle the feed lists as expired and an entry of
\* a cycle the feed does not list
C8_Witness ==
  \E k \in Returned :
    /\ calls[k].out # <<>>
    /\ \E a \in FeedIdx :
         /\ ~EolAfterNow(kubernetesVersions[a])
         /\ FirstMatch(calls[k].block, kubernetesVersions[a]) # 0
    /\ \E i \in 1..Len(calls[k].block) :
         /\ HasPrefix(TrimSpace(calls[k].block[i]), DashV)
         /\ \A a \in FeedIdx : ~Matches(calls[k].block[i], kubernetesVersions[a])

\* the existing block of call c is up to date: the feed parses, every
\* supported cycle resolves, and the block holds one entry line per
\* supported cycle, carrying the resolved tag and "# EOL <date>", and
\* nothing else
UpToDate(c) ==
  LET S == {a \in FeedIdx : EolAfterNow(kubernetesVersions[a])}
  IN  /\ c.down = NoTag
      /\ S # {}
      /\ \A a \in FeedIdx : ParseDate(kubernetesVersions[a].EOLDate).ok
      /\ \A a \in S : Resolution(c, kubernetesVersions[a]).err = ""
      /\ Len(c.block) = Cardinality(S)
      /\ \A a \in S : \E i \in 1..Len(c.block) :
           TrimSpace(c.block[i])
             = NewEntryText(kubernetesVersions[a],
                            Resolution(c, kubernetesVersions[a]).tag)

\* C9: on an up-to-date block updateVersionsBlock returns the block itself,
\* line for line, and merging that output again returns it once more.
C9_UpToDateBlockIsUnchanged ==
  \A k \in 1..Len(calls) :
    UpToDate(calls[k]) =>
      /\ calls[k].err = ""
      /\ calls[k].out = calls[k].block
      /\ updateVersionsBlock(kubernetesVersions, calls[k].out, now,
                             [exists |-> registry, down |-> NoTag]).output
           = calls[k].out

\* the scanner is inside a block when it reads line i: a header precedes
\* line i, and only "-"/"#" lines lie between that header and line i
InBlockAt(i) ==
  \E h \in 1..(i - 1) :
    /\ IsHeader(TrimSpace(lines[h]))
    /\ \A j \in (h + 1)..(i - 1) :
         ~IsHeader(TrimSpace(lines[j])) /\ IsBlockLine(TrimSpace(lines[j]))

\* line i is buffered into the block
IsBuffered(i) ==
  /\ ~IsHeader(TrimSpace(lines[i]))
  /\ InBlockAt(i)
  /\ IsBlockLine(TrimSpace(lines[i]))

\* line i terminates a block
IsTerminator(i) ==
  /\ ~IsHeader(TrimSpace(lines[i]))
  /\ InBlockAt(i)
  /\ ~IsBlockLine(TrimSpace(lines[i]))

\* the block returned by the call made at line i
ReturnedAt(i) == calls[CHOOSE k \in 1..Len(calls) : calls[k].at = i].out

\* the file content the first n lines must produce: every line that is not
\* buffered, once and unchanged, each terminating line preceded by the
\* block returned for it
RECURSIVE PassThrough(_)
PassThrough(n) ==
  IF n = 0 THEN <<>>
  ELSE PassThrough(n - 1)
         \o (IF IsBuffered(n) THEN <<>>
             ELSE IF IsTerminator(n) THEN ReturnedAt(n) \o <<lines[n]>>
             ELSE <<lines[n]>>)

\* C10: header lines, terminating lines and lines outside any block reach
\* the written file exactly once, unchanged and in their original order,
\* and each merged block sits between its header and its terminating line.
C10_OtherLinesPassThrough ==
  /\ pc = "scan" => output = PassThrough(pos)
  /\ pc = "written" => disk = PassThrough(Len(lines))

\* C10 witness: a file with lines before and after a block was written
\* with a non-empty merged block that differs from the existing one
C10_Witness ==
  /\ pc = "written"
  /\ \E k \in Returned :
       /\ calls[k].out # <<>>
       /\ calls[k].out # calls[k].block
       /\ calls[k].at < Len(lines)
  /\ ~IsHeader(TrimSpace(lines[1]))

(***************************************************************************)
(* The supported set                                                       *)
(***************************************************************************)
\* the feed entries whose end-of-life day is later than today, in feed order
SupportedOfFeed == SelectSeq(kubernetesVersions, EolAfterNow)

\* every end-of-life date of the feed parses
FeedDatesParse ==
  \A a \in 1..Len(kubernetesVersions) :
    ParseDate(kubernetesVersions[a].EOLDate).ok

\* main of the test-matrix updater has just got the supported set
SupportedReturned ==
  /\ prog = "matrix" /\ pc \in {"kind", "exit1"}
  /\ probes = <<>> /\ resolved = <<>> /\ errs = <<>>

\* C11: getSupportedKubernetesVersions returns exactly the feed entries
\* whose end-of-life date is strictly after the current time, in feed
\* order: an entry past its date, or whose date is the current instant, is
\* left out, and every entry not yet at its date is kept.
C11_SupportedSetIsStrictlyAfterNow ==
  /\ (AtStart /\ FeedDatesParse) =>
       LET r == getSupportedKubernetesVersions(kubernetesVersions, now)
       IN  r.err = "" /\ r.versions = SupportedOfFeed
  /\ (SupportedReturned /\ FeedDatesParse) =>
       /\ k8sVersions = SupportedOfFeed
       /\ SupportedOfFeed = <<>> => pc = "exit1"

\* C11 witness: the function returned a set that keeps one entry and leaves
\* out an entry whose end-of-life date is the current instant
C11_Witness ==
  /\ prog = "matrix" /\ pc = "kind"
  /\ Len(k8sVersions) = 1
  /\ \E a \in 1..Len(kubernetesVersions) :
       ParseDate(kubernetesVersions[a].EOLDate).t = now

\* the feed positions whose end-of-life date is not a calendar date
BadDateIdx == {a \in FeedIdx : kubernetesVersions[a].EOLDate = DateBad}

\* C12: a feed entry whose end-of-life date cannot be parsed aborts the
\* whole computation, wherever in the feed it is: it is never skipped.
\* getSupportedKubernetesVersions returns an error and no supported set,
\* and updateVersionsBlock returns an error and no block.
C12_UnparseableDateAborts ==
  BadDateIdx # {} =>
    /\ AtStart =>
         LET r == getSupportedKubernetesVersions(kubernetesVersions, now)
         IN  r.err # "" /\ r.versions = <<>>
    /\ (prog = "matrix" /\ pc # "start") =>
         pc = "exit1" /\ err = "date" /\ k8sVersions = <<>>
    /\ \A k \in 1..Len(calls) : calls[k].err # "" /\ calls[k].out = <<>>
    /\ (prog = "workflow" /\ calls # <<>>) => pc = "failed"

\* C12 witness: updateVersionsBlock failed on the date of the second feed
\* entry after it had rewritten the existing line of the first
C12_Witness ==
  /\ BadDateIdx = {2}
  /\ EolAfterNow(kubernetesVersions[1])
  /\ \E k \in 1..Len(calls) :
       /\ calls[k].err = "date"
       /\ FirstMatch(calls[k].block, kubernetesVersions[1]) # 0

(***************************************************************************)
(* The minikube versions                                                   *)
(***************************************************************************)
\* getLatestSupportedMinikubeVersions has run on a parsed slice
MinikubeMatched ==
  /\ prog = "matrix"
  /\ pc \in {"decide", "exit0", "exit1", "exit2"}
  /\ minikubeList # <<>>

\* the entries of the parsed slice that contain the cycle of k8sVersions[a]
EntriesOf(a) ==
  {i \in 1..Len(minikubeList) :
     Contains(minikubeList[i], k8sVersions[a].Cycle)}

\* the supported versions with at least one such entry
CyclesWithEntry == {a \in 1..Len(k8sVersions) : EntriesOf(a) # {}}

\* the position in the result of the entry chosen for k8sVersions[a]
RankOf(a) == Cardinality({b \in CyclesWithEntry : b <= a})

\* C13: getLatestSupportedMinikubeVersions returns, for each supported
\* cycle in order, the first entry of the minikube list that contains the
\* cycle identifier as a substring (whitespace trimmed), and nothing for a
\* cycle with no such entry: at most one entry per supported cycle, in the
\* order of the supported cycles, and a cycle without entry is no error.
C13_FirstMinikubeEntryPerCycle ==
  MinikubeMatched =>
    /\ Len(minikubeVersions) = Cardinality(CyclesWithEntry)
    /\ \A a \in CyclesWithEntry :
         minikubeVersions[RankOf(a)] =
           TrimSpace(minikubeList[SetMin(EntriesOf(a))])
    /\ \A k \in 1..Len(errs) : errs[k] # "minikube"

\* C13 witness: of two supported cycles the first has no entry in the
\* minikube list and the second has one, which is not the first of the list
C13_Witness ==
  /\ MinikubeMatched
  /\ Len(k8sVersions) = 2
  /\ CyclesWithEntry = {2}
  /\ Len(minikubeVersions) = 1
  /\ Len(minikubeList) > 1
  /\ errs = <<>>

(***************************************************************************)
(* The test matrix                                                         *)
(***************************************************************************)
\* entry new equals entry old in every field but the given one, which
\* holds the given list
OnlyFieldBecomes(new, old, field, list) ==
  /\ DOMAIN new = DOMAIN old
  /\ new[field] = list
  /\ \A f \in DOMAIN old \ {field} : new[f] = old[f]

\* what the claim asks of one entry
EntryUpdated(new, old) ==
  IF kindVersions # <<>> /\ KindField \in DOMAIN old
  THEN OnlyFieldBecomes(new, old, KindField, kindVersions)
  ELSE IF minikubeVersions # <<>> /\ MinikubeField \in DOMAIN old
  THEN OnlyFieldBecomes(new, old, MinikubeField, minikubeVersions)
  ELSE new = old

\* C14: updateMatrixFile changes at most one field per entry of the
\* matrix: "k8s-kind-version" becomes kindVersions when kindVersions is
\* non-empty and the entry has that field; otherwise "k8s-minikube-version"
\* becomes minikubeVersions when minikubeVersions is non-empty and the
\* entry has that field. Every other field, every entry with neither field
\* and the set of entry names are unchanged; with both lists empty the
\* whole mapping is unchanged.
C14_AtMostOneFieldPerEntry ==
  /\ \A k \in 1..Len(matrixWrites) :
       /\ DOMAIN matrixWrites[k] = DOMAIN testMatrix
       /\ \A e \in DOMAIN testMatrix :
            /\ EntryUpdated(matrixWrites[k][e], testMatrix[e])
            /\ Cardinality({f \in DOMAIN testMatrix[e] :
                              matrixWrites[k][e][f] # testMatrix[e][f]}) <= 1
  /\ AtStart =>
       \A matrix \in Matrices : updateMatrix(matrix, <<>>, <<>>) = matrix

\* C14 witness: with both lists non-empty a matrix was written in which
\* the entry holding both fields got the kind versions and kept its
\* minikube versions, and the entry holding only the minikube field got
\* the minikube versions
C14_Witness ==
  /\ pc = "exit0"
  /\ kindVersions # <<>> /\ minikubeVersions # <<>>
  /\ testMatrix = MatrixMixed
  /\ matrixWrites[1]["c-both"][KindField] = kindVersions
  /\ matrixWrites[1]["c-both"][MinikubeField] = OldMinikube
  /\ matrixWrites[1]["b-minikube"][MinikubeField] = minikubeVersions

(***************************************************************************)
(* The exit of the test-matrix updater                                     *)
(***************************************************************************)
\* the search for the kind images ended on a probe or decrement error
KindFailed ==
  \E k \in 1..Len(resolved) : resolved[k].outcome = "error"

\* getLatestSupportedMinikubeVersions returned an error
MinikubeFailed ==
  pc \in {"decide", "exit0", "exit1", "exit2"} /\ minikubeList = <<>>

\* main went past both resolutions and exited
MatrixRunEnded ==
  prog = "matrix" /\ pc \in {"exit0", "exit1", "exit2"} /\ k8sVersions # <<>>

\* main got as far as os.Getwd and updateMatrixFile
MatrixUpdateStarted ==
  /\ prog = "matrix"
  /\ matrixWrites # <<>> \/ testMatrix # EmptyMatrix \/ err \in MatrixFailures

\* C15: when both version lists are empty and at least one resolution
\* error was recorded, the test-matrix updater exits with status 2 and
\* never calls updateMatrixFile; more generally the matrix file is written
\* only in a run in which no resolution error was recorded and at least one
\* of the two lists is non-empty, and every other run that got past the
\* supported set exits with status 2.
C15_ErrorsOrNoVersionsExitTwo ==
  /\ MatrixUpdateStarted =>
       /\ ~KindFailed /\ ~MinikubeFailed /\ errs = <<>>
       /\ kindVersions # <<>> \/ minikubeVersions # <<>>
  /\ (MatrixRunEnded /\ (KindFailed \/ MinikubeFailed)) =>
       pc = "exit2" /\ errs # <<>>
  /\ (MatrixRunEnded /\ kindVersions = <<>> /\ minikubeVersions = <<>>) =>
       pc = "exit2"

\* C15 witness: a run with a kind probe error and a failed minikube fetch,
\* both lists empty, exited with status 2 without reading the matrix file
C15_Witness ==
  /\ pc = "exit2"
  /\ kindVersions = <<>> /\ minikubeVersions = <<>>
  /\ errs = <<"kind", "minikube">>
  /\ testMatrix = EmptyMatrix /\ matrixWrites = <<>>

(***************************************************************************)
(* The loop of the workflow-file updater over its target files             *)
(***************************************************************************)
\* the workflow-file updater has exited
WorkflowRunEnded == prog = "workflow" /\ pc \in {"exit0", "exit2"}

\* the files updateK8sVersion returned an error for
FailedFiles == {k \in 1..Len(attempted) : attempted[k].failed}

ErrorsBeforeWrite == {"open", "read", "date", "probe", "decrement"}

\* C17: updateK8sVersion writes its target file at most once and only
\* after the full new content is built: while the scan is going on the
\* file holds what it held before the call, and when the merge of a block
\* returns an error or the scan fails, the function returns the error and
\* the file holds exactly what it held before the call, also when earlier
\* blocks of the file were merged successfully.
C17_WrittenOnceAfterFullScan ==
  prog = "workflow" =>
    /\ pc = "scan" => disk = lines
    /\ (pc = "failed" /\ err \in ErrorsBeforeWrite) => disk = lines
    /\ pc = "failed" => err \in ErrorsBeforeWrite \cup {"write"}
    /\ pc = "written" =>
         /\ pos = Len(lines)
         /\ err = ""
         /\ disk = WrittenLines(output)

\* C17 witness: the merge of the second block of a file failed after the
\* first block had been merged into a block that differs from the existing
\* one, and the file is unchanged
C17_Witness ==
  /\ pc = "failed"
  /\ Len(calls) = 2
  /\ calls[1].err = "" /\ calls[1].out # calls[1].block
  /\ calls[2].err # ""
  /\ disk = lines

(***************************************************************************)
(* The indentation of a new entry                                          *)
(***************************************************************************)
\* number of whitespace characters before the first other character
LeadingWidth(line) ==
  LET N == {i \in 1..Len(line) : ~IsSpace(line[i])}
  IN  IF N = {} THEN Len(line) ELSE SetMin(N) - 1

\* number of whitespace characters after the last other character
TrailingWidth(line) ==
  LET N == {i \in 1..Len(line) : ~IsSpace(line[i])}
  IN  IF N = {} THEN 0 ELSE Len(line) - SetMax(N)

Spaces(n) == [j \in 1..n |-> " "]

\* line i of the block returned by call c is the new entry of feed entry v
IsNewEntryAt(c, v, i) ==
  /\ EolAfterNow(v)
  /\ FirstMatch(c.block, v) = 0
  /\ Resolution(c, v).err = ""
  /\ TrimSpace(c.out[i]) = NewEntryText(v, Resolution(c, v).tag)

Descent(cycle, p, n) == [i \in 1..n |-> Tag(cycle, p - (i - 1))]

\* the search of getLatestSupportedKindImages recorded as r went down from
\* M.m.p one patch at a time and ended within p + 1 probes
SearchDescends(r, cycle, p) ==
  /\ Len(r.probes) \in 1..(p + 1)
  /\ r.probes = Descent(cycle, p, Len(r.probes))
  /\ \A i, j \in 1..Len(r.probes) : r.probes[i] = r.probes[j] => i = j
  /\ r.outcome \in {"found", "exhausted", "error"}
  /\ r.tag = r.probes[Len(r.probes)]

\* C19: the backward search terminates. Started on M.m.p, the probed
\* candidates are M.m.p, M.m.(p-1), ... with the patch decreasing by one
\* per step, each candidate is probed at most once, a probe transport error
\* ends the search with an error and no further probe, and the search ends
\* after at most p + 1 probes in a found, exhausted or error outcome.
C19_SearchDescendsWithinBound ==
  /\ \A k \in 1..Len(resolved) :
       /\ \E cycle \in Cycles \cup {Cycle9, Cycle10}, p \in 0..MaxPatch :
            /\ resolved[k].start = Tag(cycle, p)
            /\ SearchDescends(resolved[k], cycle, p)
       /\ resolved[k].outcome = "error" =>
            /\ k = Len(resolved)
            /\ pc # "kind"
            /\ IF pc = "kindDone" THEN err = "probe"
               ELSE errs # <<>> /\ errs[1] = "kind"
  /\ (prog = "matrix" /\ pc = "kind") =>
       \E cycle \in Cycles \cup {Cycle9, Cycle10}, p \in 0..MaxPatch :
         /\ k8sVersions[kindIdx].Latest = Tag(cycle, p)
         /\ Len(probes) <= p
         /\ Append(probes, tag) = Descent(cycle, p, Len(probes) + 1)
  /\ \A k \in 1..Len(calls) :
       calls[k].down # NoTag => calls[k].err = "probe" /\ calls[k].out = <<>>
  /\ AtStart =>
       \A a \in FeedIdx : \A down \in {NoTag, kubernetesVersions[a].Latest} :
         LET r == getAvailableKindImage(kubernetesVersions[a].Latest,
                                        [exists |-> registry, down |-> down])
         IN  IF down = NoTag THEN r.err \in {"", "decrement"}
             ELSE r.err = "probe"

\* C19 witness: one search probed every candidate from the advertised
\* patch down to patch 0 and was exhausted, and the next search ended on a
\* probe transport error after it had gone down one patch
C19_Witness ==
  /\ Len(resolved) = 2
  /\ resolved[1].outcome = "exhausted"
  /\ Len(resolved[1].probes) = MaxPatch + 1
  /\ resolved[2].outcome = "error"
  /\ Len(resolved[2].probes) = 2

(***************************************************************************)
(* The lines of a patched block                                            *)
(***************************************************************************)
\* line is an entry of a cycle that the feed lists as supported
IsSupportedEntry(line) ==
  \E a \in FeedIdx :
    /\ EolAfterNow(kubernetesVersions[a])
    /\ IsLineOfCycle(line, kubernetesVersions[a])

IsComment(line) == HasPrefix(TrimSpace(line), <<"#">>)

\* every "-" or "#" line of the file read lies inside a versions block
DashLinesAreBlockLines ==
  \A i \in 1..Len(lines) : IsBlockLine(TrimSpace(lines[i])) => IsBuffered(i)

\* C20: every line written inside a patched versions block is an entry
\* line produced for a feed cycle: a "#" comment line, or a "-" line that
\* matches no supported cycle, that was accumulated into the block buffer
\* never appears in the written file, and the merged block has at most one
\* line per feed cycle.
C20_PatchedBlockHoldsFeedEntriesOnly ==
  /\ \A k \in Returned :
       /\ \A i \in 1..Len(calls[k].out) :
            ~IsComment(calls[k].out[i]) /\ IsSupportedEntry(calls[k].out[i])
       /\ \A a \in FeedIdx :
            Cardinality(LinesOf(calls[k].out, kubernetesVersions[a])) <= 1
       /\ Len(calls[k].out) <= Len(kubernetesVersions)
  /\ (pc = "written" /\ DashLinesAreBlockLines) =>
       \A j \in 1..Len(disk) :
         IsBlockLine(TrimSpace(disk[j])) => IsSupportedEntry(disk[j])

\* C20 witness: a file was written whose block had held a comment line and
\* an entry of a cycle the feed does not list, and the merged block has a
\* line
C20_Witness ==
  /\ pc = "written"
  /\ \E k \in Returned :
       /\ calls[k].out # <<>>
       /\ \E i \in 1..Len(calls[k].block) : IsComment(calls[k].block[i])
       /\ \E i \in 1..Len(calls[k].block) :
            /\ HasPrefix(TrimSpace(calls[k].block[i]), <<"-">>)
            /\ ~IsSupportedEntry(calls[k].block[i])

(***************************************************************************)
(* The order of the kind versions                                          *)
(***************************************************************************)
\* the numbers (major, minor, patch) of a tag "vM.m.p"
NumericKey(version) ==
  LET parts == Split(Tail(version))
  IN  [i \in 1..Len(parts) |-> DigitsVal(parts[i])]

\* (major, minor, patch) of a is at least that of b
NumericGeq(a, b) ==
  LET x == NumericKey(a)
      y == NumericKey(b)
  IN  \/ x[1] > y[1]
      \/ x[1] = y[1] /\ x[2] > y[2]
      \/ x[1] = y[1] /\ x[2] = y[2] /\ x[3] >= y[3]

NonIncreasing(versions) ==
  \A i, j \in 1..Len(versions) : i < j => NumericGeq(versions[i], versions[j])

\* C21: after sortVersions, the kind version list written to the matrix
\* is in non-increasing order of its numeric (major, minor, patch) value,
\* for every list of "vM.m.p" tags, tags whose components have different
\* digit counts (such as v1.9.0 and v1.10.0) included.
C21_KindVersionsInNumericOrder ==
  prog = "matrix" =>
    /\ pc \in {"minikube", "decide", "exit0", "exit1", "exit2"} =>
         NonIncreasing(kindVersions)
    /\ \A k \in 1..Len(matrixWrites) : \A e \in DOMAIN matrixWrites[k] :
         (KindField \in DOMAIN matrixWrites[k][e] /\ kindVersions # <<>>)
           => NonIncreasing(matrixWrites[k][e][KindField])

====
